---- MODULE Spec2Model ----
(***************************************************************************)
(* Hot-Plug Heaven: the controller's allocation ledger and scheduler       *)
(* (src/host/controller/controller_multi.py) together with the agents'     *)
(* affinity executor (src/vm/agent_instance.py) and the workers' job cycle *)
(* (src/vm/worker.py).                                                     *)
(*                                                                         *)
(* Python dicts are insertion ordered and the scheduler iterates them, so  *)
(* every dict whose iteration order the code depends on is modelled as a   *)
(* function plus the sequence of its keys in insertion order.              *)
(* Wall-clock values (AGENTS[a]["last"], the "ts" of a pending entry, the  *)
(* activity log and the SQLite audit log) are write-only in the code and   *)
(* are left out.                                                           *)
(***************************************************************************)
EXTENDS Integers, Sequences, FiniteSets, TLC

\* ------------------------------------------------------------------ inputs
Agents == {"vm1", "vm2"}
Pids == {11}
\* the pids of the children the workers spawn
WorkerPids == {11, 12}

\* jobs.json of worker.py: the jobs a worker launches, each with its agent and cores
JobCatalogue ==
  { [name |-> "train", agent |-> "vm1", cores |-> 4],
    [name |-> "infer", agent |-> "vm1", cores |-> 1],
    [name |-> "etl",   agent |-> "vm2", cores |-> 2] }
Jobs == {j.name : j \in JobCatalogue}
CpuVals == {0, 50, 100}

\* bounds of the model
MaxRequests == 3
MaxStarts == 2
MaxCpu == 120
MaxAllocated == 6

\* program constants
MIN_CORES_PER_JOB == 1
RESERVE_BUFFER == 0
DefaultTotalCores == 1
DefaultCoreOffset == 0

None == <<>>
NoEndpoint == "None"

\* command line of each agent process: --cores, --offset, and its own URL
TOTAL_CORES(a) == IF a = "vm1" THEN 4 ELSE 2
CORE_OFFSET(a) == IF a = "vm1" THEN 0 ELSE 4
Endpoint(a) == a

\* the command lines an agent process is started with: the one above, and for
\* vm1 also an earlier start on the upper half of its cores
CommandLines(a) ==
  {[cores |-> TOTAL_CORES(a), offset |-> CORE_OFFSET(a)]}
    \cup (IF a = "vm1" THEN {[cores |-> 2, offset |-> 2]} ELSE {})

VARIABLES
  AGENTS,        \* agent_name -> [total_cores, endpoint, offset]
  AGENTS_keys,   \* insertion order of AGENTS
  CORE_MAP,      \* global core index -> <<agent, job>> or None
  CORE_MAP_keys, \* insertion order of CORE_MAP
  ALLOCATIONS,   \* <<agent, job>> -> sequence of global core indices
  JOB_REQUEST,   \* <<agent, job>> -> originally requested cores
  PENDING,       \* sequence of [vm, job, pid, need, ts]; ts orders the enqueue times
  LOCK,          \* "free", or "sched" while scheduler_loop is inside `with LOCK`
  worklist,      \* the part of list(PENDING) the running pass has not visited
  jobs,          \* per agent process: job -> [pid, cores]
  jobs_keys,     \* per agent process: insertion order of jobs
  worker,        \* per spawned child pid: where its run_job_cycle thread is, and its job
  start_tokens,  \* the pids whose start marker file exists in START_DIR
  affined,       \* the pids an allocate call has bound at an agent (history)
  summary,       \* the copies a running summary() call has made so far
  nreq,          \* how many requests were queued so far (bounds the model)
  nstart,        \* how many times an agent process was started (bounds the model)
  estimate,      \* arguments and results of estimate_used_cores under SpecEst
  ev             \* the last operation performed and its reply

vars == <<AGENTS, AGENTS_keys, CORE_MAP, CORE_MAP_keys, ALLOCATIONS, JOB_REQUEST,
          PENDING, LOCK, worklist, jobs, jobs_keys, worker, start_tokens, affined, summary,
          nreq, nstart, estimate, ev>>

\* the worker's side
client == <<worker, start_tokens>>

ledger == <<AGENTS, AGENTS_keys, CORE_MAP, CORE_MAP_keys, ALLOCATIONS, JOB_REQUEST, PENDING>>

\* ----------------------------------------------------------------- helpers
Range(s) == {s[i] : i \in DOMAIN s}

RangeList(offset, total) == [i \in 1..total |-> offset + i - 1]

Put(f, k, v) == [x \in DOMAIN f \cup {k} |-> IF x = k THEN v ELSE f[x]]

Pop(f, k) == [x \in DOMAIN f \ {k} |-> f[x]]

RECURSIVE RemoveFirst(_, _)
RemoveFirst(s, e) ==
  IF s = <<>> THEN <<>>
  ELSE IF Head(s) = e THEN Tail(s)
  ELSE <<Head(s)>> \o RemoveFirst(Tail(s), e)

\* ev: the operation, whom it named, its reply, whether it repeats the
\* successful complete just before it, and the slots a scheduling attempt took
\* from victims; for a summary, the core_map, allocations and pending it
\* returns. For a scheduling attempt also: the sorted candidate list, the
\* number of cores it set out to steal (need - free), the stolen_indices it
\* selected, the answer of the allocate call ("none" when none was made) and
\* whether a release call answered 404 or 500.
Event(op, vm, job, ok, again, stolen) ==
  [op |-> op, vm |-> vm, job |-> job, ok |-> ok, again |-> again, stolen |-> stolen,
   cands |-> <<>>, need_remaining |-> 0, selected |-> <<>>, alloc |-> "none", relerr |-> FALSE,
   core_map |-> <<>>, allocations |-> <<>>, pending |-> <<>>]

\* ------------------------------------------------------------ agent process
\* os.sched_setaffinity(pid, set(cores)): EINVAL on an empty mask, otherwise
\* whatever the OS answers for that pid and mask.
SetAffinity(cores, osOK) == cores # <<>> /\ osOK

AgentAllocateOK(cores, osOK) == SetAffinity(cores, osOK)

AgentAllocate(jb, e, job, pid, cores, osOK) ==
  IF AgentAllocateOK(cores, osOK)
  THEN [jb EXCEPT ![e] = Put(@, job, [pid |-> pid, cores |-> cores])]
  ELSE jb

AgentAllocateKeys(jk, jb, e, job, cores, osOK) ==
  IF AgentAllocateOK(cores, osOK) /\ job \notin DOMAIN jb[e]
  THEN [jk EXCEPT ![e] = Append(@, job)]
  ELSE jk

\* release answers 404 for an unknown job and 500 when sched_setaffinity raises
AgentReleaseOK(jb, e, job, keep, osOK) == job \in DOMAIN jb[e] /\ SetAffinity(keep, osOK)

AgentRelease(jb, e, job, keep, osOK) ==
  IF job \notin DOMAIN jb[e] THEN jb
  ELSE IF SetAffinity(keep, osOK)
  THEN [jb EXCEPT ![e] = [@ EXCEPT ![job] = [pid |-> @.pid, cores |-> keep]]]
  ELSE jb

\* no summary() call is inside its `with LOCK` block
SummaryIdle == [pc |-> "idle", lock |-> "free", core_map_copy |-> <<>>, alloc_copy |-> <<>>]

\* a run_job_cycle thread that has not spawned its child yet
Idle == [pc |-> "idle", agent |-> "", name |-> "", need |-> 0, sent |-> 0, path |-> ""]

\* ------------------------------------------------------------------- Init
Init ==
  /\ AGENTS = <<>>
  /\ AGENTS_keys = <<>>
  /\ CORE_MAP = <<>>
  /\ CORE_MAP_keys = <<>>
  /\ ALLOCATIONS = <<>>
  /\ JOB_REQUEST = <<>>
  /\ PENDING = <<>>
  /\ LOCK = "free"
  /\ worklist = <<>>
  /\ jobs = [a \in Agents |-> <<>>]
  /\ jobs_keys = [a \in Agents |-> <<>>]
  /\ worker = [p \in WorkerPids |-> Idle]
  /\ start_tokens = {}
  /\ affined = {}
  /\ summary = SummaryIdle
  /\ nreq = 0
  /\ nstart = 0
  /\ estimate = <<>>
  /\ ev = Event("init", "", "", TRUE, FALSE, <<>>)

\* ------------------------------------------------------- controller handlers
\* the mutant of RegisterCoreMap: CORE_MAP[g] = None instead of setdefault
RegisterCoreMapReset(cm, slots) ==
  [g \in DOMAIN cm \cup Range(slots) |-> IF g \in Range(slots) THEN None ELSE cm[g]]

\* for g in range(offset, offset+total): CORE_MAP.setdefault(g, None)
RegisterCoreMap(cm, slots) ==
  [g \in DOMAIN cm \cup Range(slots) |-> IF g \in DOMAIN cm THEN cm[g] ELSE None]

\* register(); restarted says the call comes from a freshly started agent
\* process, whose jobs dict is empty
RegisterCall(op, agent, endpoint, total, offset, restarted) ==
  /\ LOCK = "free"
  /\ restarted => nstart < MaxStarts
  /\ nstart' = IF restarted THEN nstart + 1 ELSE nstart
  /\ AGENTS' = Put(AGENTS, agent, [total_cores |-> total, endpoint |-> endpoint, offset |-> offset])
  /\ AGENTS_keys' = IF agent \in DOMAIN AGENTS THEN AGENTS_keys ELSE Append(AGENTS_keys, agent)
  /\ CORE_MAP' = RegisterCoreMap(CORE_MAP, RangeList(offset, total))
  /\ CORE_MAP_keys' = CORE_MAP_keys \o SelectSeq(RangeList(offset, total), LAMBDA g : g \notin DOMAIN CORE_MAP)
  /\ jobs' = IF restarted THEN [jobs EXCEPT ![agent] = <<>>] ELSE jobs
  /\ jobs_keys' = IF restarted THEN [jobs_keys EXCEPT ![agent] = <<>>] ELSE jobs_keys
  /\ ev' = Event(op, agent, "", TRUE, FALSE, <<>>)
  /\ UNCHANGED <<ALLOCATIONS, JOB_REQUEST, PENDING, LOCK, worklist, affined, nreq, estimate>>

\* the agent process starts with command line c: jobs = {} and register_once()
Register(a, c) == RegisterCall("register", a, Endpoint(a), c.cores, c.offset, TRUE)

\* heartbeat_loop(): posts {"vm_name": AGENT_NAME} only, so register() reads
\* endpoint = None, total_cores = 1, core_offset = 0
Heartbeat(a) == RegisterCall("heartbeat", a, NoEndpoint, DefaultTotalCores, DefaultCoreOffset, FALSE)

\* the mutant of KnownAgent: the `vm not in AGENTS` check is missing
KnownAgentAlways(vm) == TRUE

\* if vm not in AGENTS: return ... 400
KnownAgent(vm) == vm \in DOMAIN AGENTS

RequestAlloc(vm, job, pid, need) ==
  /\ LOCK = "free"
  /\ IF ~KnownAgent(vm)
     THEN /\ ev' = Event("request", vm, job, FALSE, FALSE, <<>>)
          /\ UNCHANGED <<ledger, LOCK, worklist, jobs, jobs_keys, affined, nreq, nstart, estimate>>
     ELSE /\ nreq < MaxRequests
          /\ nreq' = nreq + 1
          /\ PENDING' = Append(PENDING, [vm |-> vm, job |-> job, pid |-> pid, need |-> need, ts |-> nreq])
          /\ JOB_REQUEST' = Put(JOB_REQUEST, <<vm, job>>, need)
          /\ ev' = Event("request", vm, job, TRUE, FALSE, <<>>)
          /\ UNCHANGED <<AGENTS, AGENTS_keys, CORE_MAP, CORE_MAP_keys, ALLOCATIONS,
                         LOCK, worklist, jobs, jobs_keys, affined, nstart, estimate>>

FreeCores(cm, cores) == [g \in DOMAIN cm \cup Range(cores) |-> IF g \in Range(cores) THEN None ELSE cm[g]]

\* the mutant of CompleteCoreMap: the loop that frees the cores is missing
CompleteCoreMapKept(cm, cores) == cm

\* for c in cores: CORE_MAP[c] = None
CompleteCoreMap(cm, cores) == FreeCores(cm, cores)

\* the mutant of CompleteAllocations: ALLOCATIONS[key] is read, not popped
CompleteAllocationsRead(al, key) == al

\* cores = ALLOCATIONS.pop(key)
CompleteAllocations(al, key) == Pop(al, key)

Complete(vm, job) ==
  /\ LOCK = "free"
  /\ LET key == <<vm, job>>
         again == ev.op = "complete" /\ ev.ok /\ ev.vm = vm /\ ev.job = job
     IN IF key \notin DOMAIN ALLOCATIONS
        THEN /\ ev' = Event("complete", vm, job, FALSE, again, <<>>)
             /\ UNCHANGED <<ledger, LOCK, worklist, jobs, jobs_keys, affined, nreq, nstart, estimate>>
        ELSE LET cores == ALLOCATIONS[key]
                 e == AGENTS[vm].endpoint
             IN /\ ALLOCATIONS' = CompleteAllocations(ALLOCATIONS, key)
                /\ \E reached \in BOOLEAN, osOK \in BOOLEAN :
                     jobs' = IF e # NoEndpoint /\ reached
                             THEN AgentRelease(jobs, e, job, <<>>, osOK)
                             ELSE jobs
                /\ CORE_MAP' = CompleteCoreMap(CORE_MAP, cores)
                /\ JOB_REQUEST' = Pop(JOB_REQUEST, key)
                /\ ev' = Event("complete", vm, job, TRUE, again, <<>>)
                /\ UNCHANGED <<AGENTS, AGENTS_keys, CORE_MAP_keys, PENDING, LOCK,
                               worklist, jobs_keys, affined, nreq, nstart, estimate>>

\* ---------------------------------------------------- scheduler + allocation
\* round(): Python 3 rounds halves to the nearest even integer
RoundHalfEven(num, den) ==
  LET q == num \div den
      r == num % den
  IN IF 2 * r < den THEN q
     ELSE IF 2 * r > den THEN q + 1
     ELSE IF q % 2 = 0 THEN q ELSE q + 1

Max(a, b) == IF a >= b THEN a ELSE b
Min(a, b) == IF a <= b THEN a ELSE b

\* the mutant of estimate_used_cores: `return est`, without min(est, allocated)
estimate_used_cores_unclamped(cpu_percent, allocated) ==
  Max(1, RoundHalfEven(cpu_percent * allocated, 100))

estimate_used_cores(cpu_percent, allocated) ==
  LET est == Max(1, RoundHalfEven(cpu_percent * allocated, 100))
  IN Min(est, allocated)

\* the call reaches the agent behind AGENTS[a]["endpoint"]; endpoint None
\* raises TypeError inside the caller's try block
Reachable(a, down) == AGENTS[a].endpoint # NoEndpoint /\ AGENTS[a].endpoint \notin down

CoreGet(cm, g) == IF g \in DOMAIN cm THEN cm[g] ELSE None

FreeSlots(cm, agent_slots) == SelectSeq(agent_slots, LAMBDA g : CoreGet(cm, g) = None)

FirstN(s, n) == SubSeq(s, 1, Min(n, Len(s)))

\* [g for g,m in CORE_MAP.items() if m == key], in dict order
Idxs(cm, key) == SelectSeq(CORE_MAP_keys, LAMBDA g : cm[g] = key)

BindCores(cm, cores, key) == [g \in DOMAIN cm |-> IF g \in Range(cores) THEN key ELSE cm[g]]

\* the mutant of AssignAndRecord: the reply of /allocate is not looked at, the
\* cores are recorded whenever the call returns
AssignAndRecordUnchecked(st, agent, job, pid, cores, down, osOK) ==
  LET key == <<agent, job>>
      e == AGENTS[agent].endpoint
      reached == Reachable(agent, down)
      jb2 == IF reached THEN AgentAllocate(st.jb, e, job, pid, cores, osOK) ELSE st.jb
      jk2 == IF reached THEN AgentAllocateKeys(st.jk, st.jb, e, job, cores, osOK) ELSE st.jk
      alloc == IF ~reached THEN "unreachable" ELSE IF AgentAllocateOK(cores, osOK) THEN "ok" ELSE "error"
  IN IF reached
     THEN [ok |-> TRUE, alloc |-> alloc,
           cm |-> BindCores(st.cm, cores, key),
           al |-> Put(st.al, key, (IF key \in DOMAIN st.al THEN st.al[key] ELSE <<>>) \o cores),
           jr |-> Put(st.jr, key, IF key \in DOMAIN st.jr THEN st.jr[key] ELSE Len(cores)),
           jb |-> jb2, jk |-> jk2]
     ELSE [ok |-> FALSE, alloc |-> alloc, cm |-> st.cm, al |-> st.al, jr |-> st.jr, jb |-> jb2, jk |-> jk2]

\* _assign_and_record on the ledger st = [cm, al, jr, jb, jk]
AssignAndRecord(st, agent, job, pid, cores, down, osOK) ==
  LET key == <<agent, job>>
      e == AGENTS[agent].endpoint
      reached == Reachable(agent, down)
      ok == reached /\ AgentAllocateOK(cores, osOK)
      jb2 == IF reached THEN AgentAllocate(st.jb, e, job, pid, cores, osOK) ELSE st.jb
      jk2 == IF reached THEN AgentAllocateKeys(st.jk, st.jb, e, job, cores, osOK) ELSE st.jk
      alloc == IF ~reached THEN "unreachable" ELSE IF AgentAllocateOK(cores, osOK) THEN "ok" ELSE "error"
  IN IF ok
     THEN [ok |-> TRUE, alloc |-> alloc,
           cm |-> BindCores(st.cm, cores, key),
           al |-> Put(st.al, key, (IF key \in DOMAIN st.al THEN st.al[key] ELSE <<>>) \o cores),
           jr |-> Put(st.jr, key, IF key \in DOMAIN st.jr THEN st.jr[key] ELSE Len(cores)),
           jb |-> jb2, jk |-> jk2]
     ELSE [ok |-> FALSE, alloc |-> alloc, cm |-> st.cm, al |-> st.al, jr |-> st.jr, jb |-> jb2, jk |-> jk2]

\* the (agent, job) pairs the status scan visits, in visiting order
RECURSIVE ScanOrder(_, _)
ScanOrder(agent_names, down) ==
  IF agent_names = <<>> THEN <<>>
  ELSE LET a == Head(agent_names)
           e == AGENTS[a].endpoint
           mine == IF Reachable(a, down)
                   THEN [i \in DOMAIN jobs_keys[e] |-> <<a, jobs_keys[e][i]>>]
                   ELSE <<>>
       IN mine \o ScanOrder(Tail(agent_names), down)

\* the keys whose cpu_percent the scan reads
CpuKeys(cm) == {k \in Agents \X Jobs : Len(Idxs(cm, k)) > MIN_CORES_PER_JOB}

IsCandidate(allocated, cpu_p) ==
  /\ allocated > MIN_CORES_PER_JOB
  /\ allocated - estimate_used_cores(cpu_p, allocated) >= 1
  /\ (allocated - 1) >= MIN_CORES_PER_JOB

Candidate(cm, key, cpu) ==
  LET idxs == Idxs(cm, key)
  IN [spare |-> Len(idxs) - estimate_used_cores(cpu[key], Len(idxs)),
      agent |-> key[1], job |-> key[2], idxs |-> idxs]

Candidates(cm, down, cpu) ==
  LET visited == ScanOrder(AGENTS_keys, down)
      kept == SelectSeq(visited, LAMBDA k : k \in DOMAIN cpu /\ IsCandidate(Len(Idxs(cm, k)), cpu[k]))
  IN [i \in DOMAIN kept |-> Candidate(cm, kept[i], cpu)]

\* candidates.sort(key=spare, reverse=True): stable
RECURSIVE InsertBySpare(_, _)
InsertBySpare(sorted, c) ==
  IF sorted = <<>> THEN <<c>>
  ELSE IF Head(sorted).spare >= c.spare
  THEN <<Head(sorted)>> \o InsertBySpare(Tail(sorted), c)
  ELSE <<c>> \o sorted

\* the mutant of SortBySpare: the sort is missing, candidates stay in scan order
SortBySpareNone(cands) == cands

RECURSIVE SortBySpare(_)
SortBySpare(cands) ==
  IF cands = <<>> THEN <<>>
  ELSE InsertBySpare(SortBySpare(SubSeq(cands, 1, Len(cands) - 1)), cands[Len(cands)])

\* a mutant of Chosen: c["idxs"][-c["spare"]:], all the spare cores of a victim
ChosenSpare(c) == SubSeq(c.idxs, Len(c.idxs) - c.spare + 1, Len(c.idxs))

\* the mutant of Chosen: c["idxs"][-2:], two cores from one victim
ChosenTwo(c) == SubSeq(c.idxs, Len(c.idxs) - 1, Len(c.idxs))

\* chosen=[c["idxs"][-1]]
Chosen(c) == <<c.idxs[Len(c.idxs)]>>

\* the while loop: pop candidates until need_remaining <= 0 or none is left
StolenIndices(sorted, need_remaining) ==
  LET k == IF need_remaining > 0 THEN Min(need_remaining, Len(sorted)) ELSE 0
  IN [i \in 1..k |-> [src_agent |-> sorted[i].agent, src_job |-> sorted[i].job,
                      idxs |-> Chosen(sorted[i])]]

\* the loop over stolen_indices: status, release with the keep-set, free the
\* slot. The reply of release is not looked at; relerr records that one was an
\* error.
RECURSIVE StealCommit(_, _, _, _)
StealCommit(st, stolen, downC, osR) ==
  IF stolen = <<>> THEN [cm |-> st.cm, jb |-> st.jb, freed |-> <<>>, relerr |-> FALSE]
  ELSE LET s == Head(stolen)
           e == AGENTS[s.src_agent].endpoint
       IN IF ~Reachable(s.src_agent, downC)
          THEN StealCommit(st, Tail(stolen), downC, osR)
          ELSE LET current == IF s.src_job \in DOMAIN st.jb[e] THEN st.jb[e][s.src_job].cores ELSE <<>>
                   new_cores == SelectSeq(current, LAMBDA c : c \notin Range(s.idxs))
                   jb2 == AgentRelease(st.jb, e, s.src_job, new_cores, osR)
                   cm2 == FreeCores(st.cm, s.idxs)
                   rest == StealCommit([st EXCEPT !.cm = cm2, !.jb = jb2], Tail(stolen), downC, osR)
               IN [cm |-> rest.cm, jb |-> rest.jb,
                   freed |-> [i \in DOMAIN s.idxs |-> [agent |-> s.src_agent, job |-> s.src_job, g |-> s.idxs[i]]]
                             \o rest.freed,
                   relerr |-> rest.relerr \/ ~AgentReleaseOK(st.jb, e, s.src_job, new_cores, osR)]

\* the mutant of DirectPick: free_slots[-need:], the highest free indices
DirectPickLast(free_slots, need) == SubSeq(free_slots, Len(free_slots) - Min(need, Len(free_slots)) + 1, Len(free_slots))

\* pick = free_slots[:need]
DirectPick(free_slots, need) == FirstN(free_slots, need)

\* the mutant of StealGoesAhead: `if stolen_indices:` without need_remaining<=0
StealGoesAheadPartial(need_remaining, stolen_indices) == stolen_indices # <<>>

\* if need_remaining<=0 and stolen_indices:
StealGoesAhead(need_remaining, stolen_indices) == need_remaining <= 0 /\ stolen_indices # <<>>

\* Lines 229-265 of one iteration of `for req in list(PENDING)`: the drop of a
\* request for an unknown agent, the direct admission, the status scan and the
\* choice of the slots to steal. `steal` holds the stolen_indices the iteration
\* goes on to free (empty when it stops here), `done` says the request was
\* admitted or dropped.
AttemptPlan(req, down, osA, cpu) ==
  LET vm == req.vm
      st0 == [cm |-> CORE_MAP, al |-> ALLOCATIONS, jr |-> JOB_REQUEST, jb |-> jobs, jk |-> jobs_keys]
  IN IF vm \notin DOMAIN AGENTS
     THEN [st |-> st0, done |-> TRUE, ok |-> FALSE, steal |-> <<>>,
           cands |-> <<>>, need_remaining |-> 0, selected |-> <<>>, alloc |-> "none"]
     ELSE
       LET agent_slots == RangeList(AGENTS[vm].offset, AGENTS[vm].total_cores)
           free_slots == FreeSlots(CORE_MAP, agent_slots)
       IN IF Len(free_slots) >= req.need + RESERVE_BUFFER
          THEN \* a failed direct allocate falls through with need_remaining <= 0
               LET d == AssignAndRecord(st0, vm, req.job, req.pid, DirectPick(free_slots, req.need), down, osA)
               IN [st |-> [cm |-> d.cm, al |-> d.al, jr |-> d.jr, jb |-> d.jb, jk |-> d.jk],
                   done |-> d.ok, ok |-> d.ok, steal |-> <<>>,
                   cands |-> <<>>, need_remaining |-> req.need - Len(free_slots),
                   selected |-> <<>>, alloc |-> d.alloc]
          ELSE LET sorted == SortBySpare(Candidates(CORE_MAP, down, cpu))
                   need_remaining == req.need - Len(free_slots)
                   stolen == StolenIndices(sorted, need_remaining)
               IN [st |-> st0, done |-> FALSE, ok |-> FALSE,
                   steal |-> IF StealGoesAhead(need_remaining - Len(stolen), stolen) THEN stolen ELSE <<>>,
                   cands |-> sorted, need_remaining |-> need_remaining,
                   selected |-> stolen, alloc |-> "none"]

\* Lines 266-284: free the stolen slots, recompute the free slots and allocate
AttemptSteal(req, plan, downC, osA, osR) ==
  LET agent_slots == RangeList(AGENTS[req.vm].offset, AGENTS[req.vm].total_cores)
      c == StealCommit(plan.st, plan.steal, downC, osR)
      st2 == [plan.st EXCEPT !.cm = c.cm, !.jb = c.jb]
      pick == FirstN(FreeSlots(st2.cm, agent_slots), req.need)
  IN IF Len(pick) = req.need
     THEN LET f == AssignAndRecord(st2, req.vm, req.job, req.pid, pick, downC, osA)
          IN [st |-> [cm |-> f.cm, al |-> f.al, jr |-> f.jr, jb |-> f.jb, jk |-> f.jk],
              ok |-> f.ok, freed |-> c.freed, alloc |-> f.alloc, relerr |-> c.relerr]
     ELSE [st |-> st2, ok |-> FALSE, freed |-> c.freed, alloc |-> "none", relerr |-> c.relerr]

\* What the environment decides during one attempt: which agents do not answer
\* during the status scan and the direct allocate (down) and during the steal
\* and the final allocate (downC), what the OS answers to sched_setaffinity in
\* allocate (osA) and release (osR), and the cpu_percent of each job. An input
\* the attempt never reads is fixed.
LiveEndpoints == {AGENTS[a].endpoint : a \in DOMAIN AGENTS} \ {NoEndpoint}

IsDirect(req) ==
  /\ req.vm \in DOMAIN AGENTS
  /\ Len(FreeSlots(CORE_MAP, RangeList(AGENTS[req.vm].offset, AGENTS[req.vm].total_cores)))
       >= req.need + RESERVE_BUFFER

DownChoices(req) ==
  IF req.vm \notin DOMAIN AGENTS THEN {{}}
  ELSE IF IsDirect(req) THEN {{}, {AGENTS[req.vm].endpoint}}
  ELSE SUBSET LiveEndpoints

OsAChoices(req) == IF IsDirect(req) THEN BOOLEAN ELSE {TRUE}

CpuChoices(req) ==
  IF req.vm \in DOMAIN AGENTS /\ ~IsDirect(req)
  THEN [CpuKeys(CORE_MAP) -> CpuVals]
  ELSE [CpuKeys(CORE_MAP) -> {0}]

\* the mutant of PendingAfter: PENDING.remove(req) whatever the attempt's outcome
PendingAfterAlways(pe, req, done) == RemoveFirst(pe, req)

\* PENDING.remove(req) on a drop or an admission, nothing otherwise
PendingAfter(pe, req, done) == IF done THEN RemoveFirst(pe, req) ELSE pe

SchedulerCommit(todo, req, st, done, r) ==
  /\ CORE_MAP' = st.cm
  /\ ALLOCATIONS' = st.al
  /\ JOB_REQUEST' = st.jr
  /\ PENDING' = PendingAfter(PENDING, req, done)
  /\ jobs' = st.jb
  /\ jobs_keys' = st.jk
  /\ worklist' = Tail(todo)
  /\ LOCK' = IF Tail(todo) = <<>> THEN "free" ELSE "sched"
  /\ ev' = [Event("attempt", req.vm, req.job, r.ok, FALSE, r.freed) EXCEPT
              !.cands = r.cands, !.need_remaining = r.need_remaining,
              !.selected = r.selected, !.alloc = r.alloc, !.relerr = r.relerr]
  /\ affined' = IF r.alloc = "ok" THEN affined \cup {req.pid} ELSE affined
  /\ UNCHANGED <<AGENTS, AGENTS_keys, CORE_MAP_keys, nreq, nstart, estimate>>

\* the mutant of NextRequest: the pass walks the snapshot from its end
NextRequestLast(todo) == todo[Len(todo)]

\* for req in list(PENDING): the next request of the snapshot
NextRequest(todo) == Head(todo)

\* scheduler_loop: one request of the pass. The first iteration of a pass takes
\* LOCK and snapshots list(PENDING); the last one leaves the `with LOCK` block.
\* A pass over an empty PENDING changes nothing and is not modelled as a step.
\* With faults = FALSE every agent answers and sched_setaffinity succeeds on
\* every non-empty mask.
SchedulerAttempt(faults) ==
  /\ \/ LOCK = "sched"
     \/ LOCK = "free" /\ PENDING # <<>>
  /\ LET todo == IF LOCK = "sched" THEN worklist ELSE PENDING
         req == NextRequest(todo)
     IN \E down \in (IF faults THEN DownChoices(req) ELSE {{}}),
           osA \in (IF faults THEN OsAChoices(req) ELSE {TRUE}),
           cpu \in CpuChoices(req) :
        \E plan \in {AttemptPlan(req, down, osA, cpu)} :
          IF plan.steal = <<>>
          THEN SchedulerCommit(todo, req, plan.st, plan.done,
                               [ok |-> plan.ok, freed |-> <<>>, cands |-> plan.cands,
                                need_remaining |-> plan.need_remaining,
                                selected |-> plan.selected, alloc |-> plan.alloc,
                                relerr |-> FALSE])
          ELSE \E downC \in (IF faults THEN SUBSET LiveEndpoints ELSE {{}}),
                  osF \in (IF faults THEN BOOLEAN ELSE {TRUE}),
                  osR \in (IF faults THEN BOOLEAN ELSE {TRUE}) :
               \E r \in {AttemptSteal(req, plan, downC, osF, osR)} :
                 SchedulerCommit(todo, req, r.st, r.ok,
                                 [ok |-> r.ok, freed |-> r.freed, cands |-> plan.cands,
                                  need_remaining |-> plan.need_remaining,
                                  selected |-> plan.selected, alloc |-> r.alloc,
                                  relerr |-> r.relerr])

SchedulerStep == SchedulerAttempt(TRUE)

\* The controller as an HTTP service: /request and /complete come from any
\* client, in any order.
Next ==
  \/ \E a \in Agents : \E c \in CommandLines(a) : Register(a, c) /\ UNCHANGED <<client, summary>>
  \/ \E a \in Agents : Heartbeat(a) /\ UNCHANGED <<client, summary>>
  \/ \E j \in JobCatalogue, p \in Pids : RequestAlloc(j.agent, j.name, p, j.cores) /\ UNCHANGED <<client, summary>>
  \/ \E j \in JobCatalogue : Complete(j.agent, j.name) /\ UNCHANGED <<client, summary>>
  \/ SchedulerStep /\ UNCHANGED <<client, summary>>

Spec == Init /\ [][Next]_vars

\* The controller with agents that are started once, never lose their
\* endpoint to a heartbeat and answer every call with success: a complete is
\* taken only where it makes no release call (release with an empty keep-set
\* is always an error).
NextAgree ==
  \/ \E a \in Agents : \E c \in CommandLines(a) :
       a \notin DOMAIN AGENTS /\ Register(a, c) /\ UNCHANGED <<client, summary>>
  \/ \E j \in JobCatalogue, p \in Pids : RequestAlloc(j.agent, j.name, p, j.cores) /\ UNCHANGED <<client, summary>>
  \/ \E j \in JobCatalogue :
       <<j.agent, j.name>> \notin DOMAIN ALLOCATIONS /\ Complete(j.agent, j.name) /\ UNCHANGED <<client, summary>>
  \/ SchedulerAttempt(FALSE) /\ UNCHANGED <<client, summary>>

SpecAgree == Init /\ [][NextAgree]_vars

\* ---------------------------------------------------------------- summary
\* the mutant of SummaryMayEnter: the copies are made without `with LOCK`
SummaryMayEnterUnlocked(lock) == TRUE

\* with LOCK: the block is entered when no other thread holds the lock
SummaryMayEnter(lock) == lock = "free"

\* what every summary step leaves alone
SummaryFrame ==
  UNCHANGED <<ledger, worklist, jobs, jobs_keys, client, affined, nreq, nstart, estimate>>

\* enter the `with LOCK` block; agents_copy and core_map_copy
SummaryCopyCoreMap ==
  /\ summary.pc = "idle"
  /\ SummaryMayEnter(LOCK)
  /\ LOCK' = IF LOCK = "free" THEN "summary" ELSE LOCK
  /\ summary' = [pc |-> "alloc", lock |-> LOCK, core_map_copy |-> CORE_MAP, alloc_copy |-> <<>>]
  /\ UNCHANGED ev
  /\ SummaryFrame

\* alloc_copy
SummaryCopyAlloc ==
  /\ summary.pc = "alloc"
  /\ summary' = [summary EXCEPT !.pc = "pending", !.alloc_copy = ALLOCATIONS]
  /\ UNCHANGED <<LOCK, ev>>
  /\ SummaryFrame

\* pending_copy, the end of the `with LOCK` block, and the reply
SummaryCopyPending ==
  /\ summary.pc = "pending"
  /\ LOCK' = IF LOCK = "summary" THEN "free" ELSE LOCK
  /\ summary' = SummaryIdle
  /\ ev' = [Event("summary", "", "", TRUE, FALSE, <<>>) EXCEPT
              !.core_map = summary.core_map_copy, !.allocations = summary.alloc_copy,
              !.pending = PENDING]
  /\ SummaryFrame

\* The controller with a client that also reads /summary
NextSummary ==
  \/ Next
  \/ SummaryCopyCoreMap
  \/ SummaryCopyAlloc
  \/ SummaryCopyPending

SpecSummary == Init /\ [][NextSummary]_vars

\* ------------------------------------------------------------- worker.py
\* run_job_cycle up to the reply of /request: spawn the gated child, remove a
\* stale start marker of its pid, post the request. /request never answers
\* "allocated", so the thread goes on to poll /summary.
WorkerSpawn(j, p) ==
  /\ worker[p].pc = "idle"
  /\ start_tokens' = start_tokens \ {p}
  /\ RequestAlloc(j.agent, j.name, p, j.cores)
  /\ worker' = [worker EXCEPT ![p] = [Idle EXCEPT !.pc = "poll", !.agent = j.agent, !.name = j.name, !.need = j.cores]]
  /\ UNCHANGED summary

\* what a call of the controller that raises in the worker leaves alone
Undelivered == UNCHANGED <<ledger, LOCK, worklist, jobs, jobs_keys, affined, nreq, nstart, estimate>>

\* run_job_cycle when requests.post(/request) raises: the request did not
\* reach the controller, or it was queued and the reply was lost. The thread
\* goes into _wait_and_notify_on_failure.
WorkerRequestFails(j, p) ==
  /\ worker[p].pc = "idle"
  /\ start_tokens' = start_tokens \ {p}
  /\ \/ RequestAlloc(j.agent, j.name, p, j.cores)
     \/ ev' = Event("request_lost", j.agent, j.name, FALSE, FALSE, <<>>) /\ Undelivered
  /\ worker' = [worker EXCEPT ![p] = [Idle EXCEPT !.pc = "notify", !.agent = j.agent, !.name = j.name, !.need = j.cores]]
  /\ UNCHANGED summary

\* requests.post(/complete) inside try/except: the controller serves the
\* call, or the call raises (time-out while the lock is held, connection
\* refused) and the exception is dropped
PostComplete(vm, job) ==
  \/ Complete(vm, job)
  \/ ev' = Event("complete_lost", vm, job, FALSE, FALSE, <<>>) /\ Undelivered

\* the worker's record after one POST /complete on the given path
Notified(w, path) == [w EXCEPT !.pc = "done", !.sent = w.sent + 1, !.path = path]

\* _wait_and_notify_on_failure: the grace wait, os.kill(pid, 9), POST /complete
WorkerNotify(p) ==
  /\ worker[p].pc = "notify"
  /\ PostComplete(worker[p].agent, worker[p].name)
  /\ worker' = [worker EXCEPT ![p] = Notified(worker[p], "request_failed")]
  /\ UNCHANGED <<start_tokens, summary>>

\* is_job_allocated_in_summary: f"{agent}|{job_name}" in summary["allocations"]
is_job_allocated_in_summary(al, agent, job_name) == <<agent, job_name>> \in DOMAIN al

\* one round of the polling loop that finds the job allocated:
\* release_start_token(pid). summary() reads the ledger under LOCK.
WorkerPoll(p) ==
  /\ worker[p].pc = "poll"
  /\ LOCK = "free"
  /\ is_job_allocated_in_summary(ALLOCATIONS, worker[p].agent, worker[p].name)
  /\ start_tokens' = start_tokens \cup {p}
  /\ worker' = [worker EXCEPT ![p].pc = "run"]
  /\ ev' = Event("poll", worker[p].agent, worker[p].name, TRUE, FALSE, <<>>)
  /\ UNCHANGED <<ledger, LOCK, worklist, jobs, jobs_keys, affined, summary, nreq, nstart, estimate>>

\* one round of the polling loop in which os.waitpid reports that the child
\* has ended before the job showed as allocated: POST /complete and return
WorkerChildExits(p) ==
  /\ worker[p].pc = "poll"
  /\ PostComplete(worker[p].agent, worker[p].name)
  /\ worker' = [worker EXCEPT ![p] = Notified(worker[p], "exited")]
  /\ UNCHANGED <<start_tokens, summary>>

\* ALLOC_WAIT_TIMEOUT has passed without the job showing as allocated:
\* os.kill(pid, 9) and POST /complete
WorkerTimeout(p) ==
  /\ worker[p].pc = "poll"
  /\ PostComplete(worker[p].agent, worker[p].name)
  /\ worker' = [worker EXCEPT ![p] = Notified(worker[p], "timeout")]
  /\ UNCHANGED <<start_tokens, summary>>

\* the mutant of RemoveStartToken: the finally clause is missing
RemoveStartTokenKept(tokens, p) == tokens

\* finally: remove_start_token(pid)
RemoveStartToken(tokens, p) == tokens \ {p}

\* the started child has ended: POST /complete, then remove_start_token(pid)
WorkerFinish(p) ==
  /\ worker[p].pc = "run"
  /\ PostComplete(worker[p].agent, worker[p].name)
  /\ worker' = [worker EXCEPT ![p] = Notified(worker[p], "normal")]
  /\ start_tokens' = RemoveStartToken(start_tokens, p)
  /\ UNCHANGED summary

\* Workers, controller and agents together: every /request and /complete is
\* one a run_job_cycle thread sends, every /request is answered, and no child
\* ends before it is started.
NextWorker ==
  \/ \E a \in Agents : \E c \in CommandLines(a) : Register(a, c) /\ UNCHANGED <<client, summary>>
  \/ \E a \in Agents : Heartbeat(a) /\ UNCHANGED <<client, summary>>
  \/ \E j \in JobCatalogue, p \in WorkerPids : WorkerSpawn(j, p)
  \/ \E p \in WorkerPids : WorkerPoll(p)
  \/ \E p \in WorkerPids : WorkerTimeout(p)
  \/ \E p \in WorkerPids : WorkerFinish(p)
  \/ SchedulerStep /\ UNCHANGED <<client, summary>>

SpecWorker == Init /\ [][NextWorker]_vars

\* the pid of the child whose job cycle is followed on all its paths
CyclePid == 11

\* the steps of one run_job_cycle thread after it has spawned its child
WorkerThread(p) ==
  \/ WorkerNotify(p)
  \/ WorkerPoll(p)
  \/ WorkerChildExits(p)
  \/ WorkerTimeout(p)
  \/ WorkerFinish(p)

\* One job cycle with controller and agents: the request may fail and the
\* child may end before it is started.
NextCycle ==
  \/ \E a \in Agents : \E c \in CommandLines(a) : Register(a, c) /\ UNCHANGED <<client, summary>>
  \/ \E a \in Agents : Heartbeat(a) /\ UNCHANGED <<client, summary>>
  \/ \E j \in JobCatalogue : WorkerSpawn(j, CyclePid)
  \/ \E j \in JobCatalogue : WorkerRequestFails(j, CyclePid)
  \/ WorkerThread(CyclePid)
  \/ SchedulerStep /\ UNCHANGED <<client, summary>>

\* A run_job_cycle thread that has spawned its child keeps running: each of
\* its waits is bounded (REQUEST_TIMEOUT, the grace of
\* _wait_and_notify_on_failure, ALLOC_WAIT_TIMEOUT, the timeout of each
\* requests call, the duration of the started child).
SpecCycle == Init /\ [][NextCycle]_vars /\ WF_vars(WorkerThread(CyclePid))

\* ------------------------------------------- estimate_used_cores on its own
\* estimate holds two percentages lo <= hi and one allocation; Estimate applies
\* estimate_used_cores to both.
InitEst ==
  /\ AGENTS = <<>> /\ AGENTS_keys = <<>> /\ CORE_MAP = <<>> /\ CORE_MAP_keys = <<>>
  /\ ALLOCATIONS = <<>> /\ JOB_REQUEST = <<>> /\ PENDING = <<>>
  /\ LOCK = "free" /\ worklist = <<>>
  /\ jobs = [a \in Agents |-> <<>>] /\ jobs_keys = [a \in Agents |-> <<>>]
  /\ worker = [p \in WorkerPids |-> Idle] /\ start_tokens = {} /\ affined = {}
  /\ summary = SummaryIdle
  /\ nreq = 0 /\ nstart = 0
  /\ ev = Event("init", "", "", TRUE, FALSE, <<>>)
  /\ \E lo \in 0..MaxCpu, hi \in 0..MaxCpu, a \in 1..MaxAllocated :
       /\ lo <= hi
       /\ estimate = [lo |-> lo, hi |-> hi, allocated |-> a, done |-> FALSE, used_lo |-> 0, used_hi |-> 0]

Estimate ==
  /\ ~estimate.done
  /\ estimate' = [estimate EXCEPT !.done = TRUE,
                         !.used_lo = estimate_used_cores(estimate.lo, estimate.allocated),
                         !.used_hi = estimate_used_cores(estimate.hi, estimate.allocated)]
  /\ UNCHANGED <<ledger, LOCK, worklist, jobs, jobs_keys, client, affined, summary, nreq, nstart, ev>>

NextEst == Estimate

SpecEst == InitEst /\ [][NextEst]_vars

\* ------------------------------------------------------------------ claims
Keys == {<<j.agent, j.name>> : j \in JobCatalogue}

BoundTo(cm, key) == {g \in DOMAIN cm : cm[g] = key}

Allocated(al, key) == IF key \in DOMAIN al THEN Range(al[key]) ELSE {}

Without(s, g) == SelectSeq(s, LAMBDA x : x # g)

RECURSIVE SumOver(_, _)
SumOver(S, f) ==
  IF S = {} THEN 0
  ELSE LET x == CHOOSE y \in S : TRUE IN f[x] + SumOver(S \ {x}, f)

AllocatedOn(a) ==
  LET mine == {k \in DOMAIN ALLOCATIONS : k[1] = a}
  IN SumOver(mine, [k \in mine |-> Len(ALLOCATIONS[k])])

\* C1: whenever the controller lock is not held, core_map[g] = (a,j) if and
\* only if g is an element of Allocation[(a,j)], for every slot g and key (a,j).
\* The state right after an attempt that stole and then failed to admit is
\* left out, so that what refutes it is a steal whose admission succeeded.
C1_BoundIffAllocated ==
  (LOCK = "free" /\ ~(ev.op = "attempt" /\ ~ev.ok)) =>
    \A g \in DOMAIN CORE_MAP, k \in Keys :
      (CORE_MAP[g] = k) <=> (g \in Allocated(ALLOCATIONS, k))

\* C2: outside the controller lock every slot is Free or holds a key whose
\* Allocation exists and contains the slot.
C2_BoundSlotIsAllocated ==
  LOCK = "free" =>
    \A g \in DOMAIN CORE_MAP :
      \/ CORE_MAP[g] = None
      \/ /\ CORE_MAP[g] \in DOMAIN ALLOCATIONS
         /\ g \in Range(ALLOCATIONS[CORE_MAP[g]])

\* C2 witness: a complete has just removed an Allocation while another job
\* still holds slots.
C2_Witness ==
  /\ LOCK = "free"
  /\ ev.op = "complete" /\ ev.ok
  /\ \E g \in DOMAIN CORE_MAP : CORE_MAP[g] # None

\* C3: for every registered agent a, the sizes of the Allocations of a's jobs
\* sum to at most total_cores(a). Stated for the agents whose Allocations lie
\* inside the range the directory holds for them, so that what refutes it is
\* the steal and not a heartbeat or a restart that shrank the range.
C3_AllocationsWithinTotal ==
  \A a \in DOMAIN AGENTS :
    (\A k \in DOMAIN ALLOCATIONS :
       k[1] = a => Range(ALLOCATIONS[k]) \subseteq Range(RangeList(AGENTS[a].offset, AGENTS[a].total_cores)))
      => AllocatedOn(a) <= AGENTS[a].total_cores

\* C4: when an attempt steals slot g from victim (a,v) and admits requester
\* (a,r), Allocation[(a,v)] becomes its previous value with g removed and g is
\* in Allocation[(a,r)].
C4_StealShrinksVictim ==
  [][(ev'.op = "attempt" /\ ev'.ok) =>
       \A i \in DOMAIN ev'.stolen :
         LET s == ev'.stolen[i]
             v == <<s.agent, s.job>>
             r == <<ev'.vm, ev'.job>>
         IN (s.agent = ev'.vm /\ v # r) =>
              /\ v \in DOMAIN ALLOCATIONS /\ v \in DOMAIN ALLOCATIONS'
              /\ ALLOCATIONS'[v] = Without(ALLOCATIONS[v], s.g)
              /\ Len(ALLOCATIONS'[v]) = Len(ALLOCATIONS[v]) - 1
              /\ s.g \in Allocated(ALLOCATIONS', r)]_vars

\* C5: a complete that repeats a successful complete of the same key fails, a
\* complete succeeds exactly when the key holds an Allocation, and a failed
\* complete leaves agents, core_map, allocations, the requested-count table
\* and the pending queue as they were.
C5_CompleteTwice ==
  [][ev'.op = "complete" =>
       LET key == <<ev'.vm, ev'.job>>
       IN /\ ev'.ok <=> (key \in DOMAIN ALLOCATIONS)
          /\ ev'.ok => key \notin DOMAIN ALLOCATIONS'
          /\ ev'.again => ~ev'.ok
          /\ ~ev'.ok => UNCHANGED ledger]_vars

\* C5 witness: the second of two complete calls for one key has failed, with
\* other jobs allocated and requests queued.
C5_Witness ==
  /\ ev.op = "complete" /\ ev.again /\ ~ev.ok
  /\ ALLOCATIONS # <<>>
  /\ PENDING # <<>>

\* C6: a successful complete(a,j) leaves no Allocation, no requested-count
\* entry and no slot Bound to (a,j), and every slot that was Free or Bound to
\* another job keeps its state.
C6_CompleteFreesOnlyOwn ==
  [][(ev'.op = "complete" /\ ev'.ok) =>
       LET key == <<ev'.vm, ev'.job>>
       IN /\ key \notin DOMAIN ALLOCATIONS'
          /\ key \notin DOMAIN JOB_REQUEST'
          /\ \A g \in DOMAIN CORE_MAP :
               /\ CORE_MAP'[g] # key
               /\ CORE_MAP[g] # key => CORE_MAP'[g] = CORE_MAP[g]]_vars

\* C7: no scheduling attempt, hence no pass of several attempts, takes a job
\* that holds at least MIN_CORES_PER_JOB cores below MIN_CORES_PER_JOB,
\* counted in core_map and counted in its Allocation.
C7_StealingFloor ==
  [][ev'.op = "attempt" =>
       \A k \in Keys :
         /\ Cardinality(BoundTo(CORE_MAP, k)) >= MIN_CORES_PER_JOB
              => Cardinality(BoundTo(CORE_MAP', k)) >= MIN_CORES_PER_JOB
         /\ (k \in DOMAIN ALLOCATIONS /\ Len(ALLOCATIONS[k]) >= MIN_CORES_PER_JOB)
              => (k \in DOMAIN ALLOCATIONS' /\ Len(ALLOCATIONS'[k]) >= MIN_CORES_PER_JOB)]_vars

\* C7 witness: an attempt has run for a request that is still queued after a
\* steal left a victim with exactly MIN_CORES_PER_JOB cores, and the victim
\* kept them.
C7_Witness ==
  /\ ev.op = "attempt" /\ ~ev.ok /\ ev.stolen = <<>>
  /\ LOCK = "free"
  /\ \E v \in Keys :
       /\ Cardinality(BoundTo(CORE_MAP, v)) = MIN_CORES_PER_JOB
       /\ v \in DOMAIN ALLOCATIONS /\ Len(ALLOCATIONS[v]) > MIN_CORES_PER_JOB
       /\ \E g \in Range(ALLOCATIONS[v]) : CORE_MAP[g] # v
       /\ \E i \in DOMAIN PENDING : PENDING[i].vm = ev.vm /\ PENDING[i].job = ev.job

\* C8: a request naming an agent that is not registered is rejected, and the
\* pending queue, core_map, allocations and the requested-count table are
\* unchanged by it; no queued request names an unregistered agent.
C8_UnknownAgentRejected ==
  /\ [](\A i \in DOMAIN PENDING : PENDING[i].vm \in DOMAIN AGENTS)
  /\ [][ev'.op = "request" =>
          /\ ev'.ok <=> (ev'.vm \in DOMAIN AGENTS)
          /\ ~ev'.ok => UNCHANGED <<PENDING, CORE_MAP, ALLOCATIONS, JOB_REQUEST>>]_vars

\* C8 witness: a request has been rejected while another request is queued and
\* a job is allocated.
C8_Witness ==
  /\ ev.op = "request" /\ ~ev.ok
  /\ PENDING # <<>>
  /\ ALLOCATIONS # <<>>

\* the integers at distance at most 1/2 from num/den
NearestIntegers(num, den) == {r \in 0..(num \div den + 1) : 2 * r * den - 2 * num \in (0 - den)..den}

Clamp(x, lo, hi) == IF x < lo THEN lo ELSE IF x > hi THEN hi ELSE x

\* C9: estimate_used_cores(cpu_percent, allocated) is an integer nearest to
\* cpu_percent/100 * allocated, clamped to [1, allocated]; it lies in
\* [1, allocated] and is non-decreasing in cpu_percent.
C9_EstimatorClampedMonotone ==
  estimate.done =>
    /\ estimate.used_lo \in 1..estimate.allocated
    /\ estimate.used_hi \in 1..estimate.allocated
    /\ estimate.used_lo <= estimate.used_hi
    /\ estimate.used_hi \in {Clamp(r, 1, estimate.allocated) :
                               r \in NearestIntegers(estimate.hi * estimate.allocated, 100)}

\* C9 witness: the estimator was applied above 100 percent and at 50 percent
\* of 4 cores, where it answers 4 and 2.
C9_Witness ==
  /\ estimate.done
  /\ estimate.allocated = 4 /\ estimate.lo = 50 /\ estimate.hi > 100
  /\ estimate.used_lo = 2 /\ estimate.used_hi = 4

\* C10: a heartbeat leaves the agent's total_cores, core_offset and endpoint
\* in the agent directory unchanged.
C10_HeartbeatKeepsCapacity ==
  [][(ev'.op = "heartbeat" /\ ev'.vm \in DOMAIN AGENTS) =>
       /\ AGENTS'[ev'.vm].total_cores = AGENTS[ev'.vm].total_cores
       /\ AGENTS'[ev'.vm].offset = AGENTS[ev'.vm].offset
       /\ AGENTS'[ev'.vm].endpoint = AGENTS[ev'.vm].endpoint]_vars

\* C11: a registration (the agent's own or the one a heartbeat makes) puts
\* every index of the registered range that core_map did not hold into
\* core_map as Free, changes no slot core_map already held, adds no other
\* slot, and leaves allocations and the pending queue unchanged; a
\* registration that repeats the arguments already in the directory leaves the
\* whole ledger unchanged.
C11_RegisterUpsert ==
  [][ev'.op \in {"register", "heartbeat"} =>
       LET a == ev'.vm
           slots == Range(RangeList(AGENTS'[a].offset, AGENTS'[a].total_cores))
       IN /\ DOMAIN CORE_MAP' = DOMAIN CORE_MAP \cup slots
          /\ \A g \in slots \ DOMAIN CORE_MAP : CORE_MAP'[g] = None
          /\ \A g \in DOMAIN CORE_MAP : CORE_MAP'[g] = CORE_MAP[g]
          /\ UNCHANGED <<ALLOCATIONS, PENDING>>
          /\ (a \in DOMAIN AGENTS /\ AGENTS'[a] = AGENTS[a]) => UNCHANGED ledger]_vars

\* C11 witness: vm1 has registered again, with another range, while train
\* holds its four slots.
C11_Witness ==
  /\ ev.op = "register" /\ ev.vm = "vm1"
  /\ AGENTS["vm1"].offset = 2
  /\ Cardinality(BoundTo(CORE_MAP, <<"vm1", "train">>)) = 4
  /\ <<"vm1", "train">> \in DOMAIN ALLOCATIONS

\* the request the next scheduling attempt works on
CurrentReq == Head(IF LOCK = "sched" THEN worklist ELSE PENDING)

\* the elements of a set of integers in ascending order
RECURSIVE Ascending(_)
Ascending(S) ==
  IF S = {} THEN <<>>
  ELSE LET m == CHOOSE x \in S : \A y \in S : x <= y
       IN <<m>> \o Ascending(S \ {m})

\* C12: an attempt for a request whose agent has at least need +
\* RESERVE_BUFFER Free slots in its range admits the request exactly when the
\* agent's allocate call succeeds and steals nothing; when it admits, exactly
\* the `need` lowest Free indices of the range become Bound to (agent, job),
\* every other slot keeps its state, the Allocation of (agent, job) is its
\* previous value (empty if none) followed by those indices in ascending
\* order, no other Allocation changes, and the request is off the queue. For
\* vm1 with offset 0, total 4 and train asking 4 the Allocation is [0,1,2,3].
C12_DirectAdmission ==
  [][(ev'.op = "attempt" /\ IsDirect(CurrentReq)) =>
       LET req == CurrentReq
           key == <<req.vm, req.job>>
           slots == Range(RangeList(AGENTS[req.vm].offset, AGENTS[req.vm].total_cores))
           free == {g \in slots : CORE_MAP[g] = None}
           lowest == {g \in free : Cardinality({h \in free : h < g}) < req.need}
           old == IF key \in DOMAIN ALLOCATIONS THEN ALLOCATIONS[key] ELSE <<>>
       IN /\ ev'.ok <=> (ev'.alloc = "ok")
          /\ ev'.stolen = <<>>
          /\ ev'.ok =>
               /\ \A g \in DOMAIN CORE_MAP' : CORE_MAP'[g] = IF g \in lowest THEN key ELSE CORE_MAP[g]
               /\ DOMAIN ALLOCATIONS' = DOMAIN ALLOCATIONS \cup {key}
               /\ ALLOCATIONS'[key] = old \o Ascending(lowest)
               /\ \A k \in DOMAIN ALLOCATIONS \ {key} : ALLOCATIONS'[k] = ALLOCATIONS[k]
               /\ req \notin Range(PENDING')
               /\ Len(PENDING') = Len(PENDING) - 1
               /\ (key = <<"vm1", "train">> /\ req.need = 4 /\ old = <<>>
                     /\ AGENTS["vm1"].offset = 0 /\ AGENTS["vm1"].total_cores = 4)
                    => ALLOCATIONS'[key] = <<0, 1, 2, 3>>]_vars

\* C12 witness: infer was admitted directly on slot 0 of vm1 while slots 1..3
\* were Free too.
C12_Witness ==
  /\ ev.op = "attempt" /\ ev.ok /\ ev.alloc = "ok" /\ ev.stolen = <<>>
  /\ ev.vm = "vm1" /\ ev.job = "infer"
  /\ AGENTS["vm1"].offset = 0 /\ AGENTS["vm1"].total_cores = 4
  /\ ALLOCATIONS[<<"vm1", "infer">>] = <<0>>
  /\ \A g \in 1..3 : CORE_MAP[g] = None

\* C13: the start marker of a pid exists only if an allocate call binding
\* that pid has succeeded at the agent.
C13_GatedUntilAffined == start_tokens \subseteq affined

\* C14: a request leaves the pending queue only in the scheduling attempt
\* that works on it, and only when that attempt admits it or drops it for an
\* unknown agent; register, heartbeat, complete (also the one a worker sends
\* after timing out and killing its child), a worker's poll and a failed
\* attempt leave the queue as it was, and a request only appends to it.
C14_PendingLeavesOnlyOnAdmission ==
  [][/\ \A i \in DOMAIN PENDING :
          \/ PENDING[i] \in Range(PENDING')
          \/ /\ ev'.op = "attempt"
             /\ PENDING[i] = CurrentReq
             /\ ev'.ok \/ PENDING[i].vm \notin DOMAIN AGENTS
     /\ ev'.op \in {"register", "heartbeat", "complete", "poll"} => PENDING' = PENDING
     /\ (ev'.op = "attempt" /\ ~ev'.ok /\ CurrentReq.vm \in DOMAIN AGENTS) => PENDING' = PENDING
     /\ ev'.op = "request" => (PENDING' = PENDING \/ \E r \in Range(PENDING') : PENDING' = Append(PENDING, r))]_vars

\* C14 witness: a worker timed out, killed its child and sent complete; the
\* child's pid was never bound and its request is still queued.
C14_Witness ==
  /\ ev.op = "complete"
  /\ \E p \in WorkerPids :
       /\ worker[p].pc = "done" /\ p \notin affined
       /\ ev.vm = worker[p].agent /\ ev.job = worker[p].name
       /\ \E i \in DOMAIN PENDING : PENDING[i].pid = p

\* C15: in one scheduling attempt every job loses at most one of the slots
\* Bound to it, and no job is named twice among the slots the attempt frees.
C15_OneCorePerVictim ==
  [][ev'.op = "attempt" =>
       /\ \A k \in Keys : Cardinality(BoundTo(CORE_MAP, k) \ BoundTo(CORE_MAP', k)) <= 1
       /\ \A i, j \in DOMAIN ev'.stolen :
            (ev'.stolen[i].agent = ev'.stolen[j].agent /\ ev'.stolen[i].job = ev'.stolen[j].job) => i = j]_vars

\* C15 witness: an attempt that set out to steal two cores took one from a
\* victim whose spare capacity was two or more.
C15_Witness ==
  /\ ev.op = "attempt" /\ ev.need_remaining >= 2
  /\ \E i \in DOMAIN ev.cands, n \in DOMAIN ev.stolen :
       /\ ev.cands[i].spare >= 2
       /\ ev.stolen[n].agent = ev.cands[i].agent /\ ev.stolen[n].job = ev.cands[i].job
       /\ CORE_MAP[ev.stolen[n].g] # <<ev.cands[i].agent, ev.cands[i].job>>

\* C16: every slot an attempt takes from a victim is the highest global index
\* that was Bound to the victim when the attempt began.
C16_StealsHighestIndex ==
  [][ev'.op = "attempt" =>
       \A i \in DOMAIN ev'.stolen :
         LET s == ev'.stolen[i]
         IN /\ CORE_MAP[s.g] = <<s.agent, s.job>>
            /\ \A g \in BoundTo(CORE_MAP, <<s.agent, s.job>>) : g <= s.g]_vars

\* the jobs an attempt took a slot from, the jobs it selected as victims, and
\* the spare capacity the attempt's status scan gave a candidate
Losers(e) == {<<e.stolen[n].agent, e.stolen[n].job>> : n \in DOMAIN e.stolen}

Selected(e) == {<<e.selected[n].src_agent, e.selected[n].src_job>> : n \in DOMAIN e.selected}

CandidateKeys(e) == {<<e.cands[i].agent, e.cands[i].job>> : i \in DOMAIN e.cands}

SpareOf(e, k) == (CHOOSE c \in Range(e.cands) : <<c.agent, c.job>> = k).spare

\* C17 as stated: if in one attempt job X loses a core and candidate job Y
\* does not, then spare(X) >= spare(Y).
C17_LosersBySpare ==
  [][ev'.op = "attempt" =>
       \A x \in Losers(ev'), y \in CandidateKeys(ev') \ Losers(ev') :
         SpareOf(ev', x) >= SpareOf(ev', y)]_vars

\* C17 amended: every job that loses a core in an attempt was selected as a
\* victim by it; if job X was selected and candidate job Y was not, then
\* spare(X) >= spare(Y); each candidate appears once, with the spare that
\* estimate_used_cores gives for the number of slots Bound to it when the
\* attempt began.
C17_SelectedBySpare ==
  [][ev'.op = "attempt" =>
       /\ Losers(ev') \subseteq Selected(ev')
       /\ Selected(ev') \subseteq CandidateKeys(ev')
       /\ \A x \in Selected(ev'), y \in CandidateKeys(ev') \ Selected(ev') :
            SpareOf(ev', x) >= SpareOf(ev', y)
       /\ \A i, j \in DOMAIN ev'.cands :
            (ev'.cands[i].agent = ev'.cands[j].agent /\ ev'.cands[i].job = ev'.cands[j].job) => i = j
       /\ \A c \in Range(ev'.cands) :
            LET allocated == Cardinality(BoundTo(CORE_MAP, <<c.agent, c.job>>))
            IN \E cpu_p \in CpuVals : c.spare = allocated - estimate_used_cores(cpu_p, allocated)]_vars

\* C17 witness: the status scan met etl (spare 1) before train (spare 3), one
\* core was needed, and train lost it.
C17_Witness ==
  /\ ev.op = "attempt"
  /\ AGENTS_keys = <<"vm2", "vm1">>
  /\ Len(ev.cands) = 2 /\ ev.cands[1].job = "train" /\ ev.cands[1].spare = 3
  /\ ev.cands[2].job = "etl" /\ ev.cands[2].spare = 1
  /\ Losers(ev) = {<<"vm1", "train">>}

\* the number of Free slots in the range of the agent of request req
FreeCount(req) ==
  Cardinality({g \in Range(RangeList(AGENTS[req.vm].offset, AGENTS[req.vm].total_cores)) :
                 CoreGet(CORE_MAP, g) = None})

\* C18: an attempt takes a slot from a victim only if the requesting agent's
\* Free slots plus the cores it selected for stealing reach `need`; when the
\* Free slots plus all the candidates fall short of `need`, the attempt leaves
\* core_map, allocations and the pending queue unchanged; when the agent has
\* `need` Free slots already, no slot is taken from any job.
C18_StealAllOrNothing ==
  [][(ev'.op = "attempt" /\ CurrentReq.vm \in DOMAIN AGENTS) =>
       LET need == CurrentReq.need
           free == FreeCount(CurrentReq)
       IN /\ ev'.stolen # <<>> => free + Len(ev'.selected) >= need
          /\ free + Len(ev'.cands) < need =>
               /\ ev'.stolen = <<>>
               /\ UNCHANGED <<CORE_MAP, ALLOCATIONS, PENDING>>
          /\ free >= need =>
               /\ ev'.stolen = <<>>
               /\ \A k \in Keys : BoundTo(CORE_MAP, k) \subseteq BoundTo(CORE_MAP', k)]_vars

\* C18 witness: an attempt needed two more cores, found one candidate, and
\* took nothing.
C18_Witness ==
  /\ ev.op = "attempt" /\ ~ev.ok
  /\ Len(ev.cands) = 1 /\ ev.need_remaining = 2
  /\ ev.stolen = <<>>
  /\ Cardinality(BoundTo(CORE_MAP, <<ev.cands[1].agent, ev.cands[1].job>>)) = Len(ev.cands[1].idxs)

\* C19: an attempt whose allocate call did not succeed (the agent was
\* unreachable, it answered with an error, or too few slots were Free after
\* the steal for the call to be made) does not admit the request: the request
\* stays in the pending queue, every Allocation is as it was, no slot is
\* newly Bound to the request's job, and every slot its steal phase freed is
\* Free afterwards.
C19_FailedAttemptKeepsRequest ==
  [][(ev'.op = "attempt" /\ ev'.alloc # "ok" /\ CurrentReq.vm \in DOMAIN AGENTS) =>
       LET key == <<CurrentReq.vm, CurrentReq.job>>
       IN /\ ~ev'.ok
          /\ PENDING' = PENDING
          /\ ALLOCATIONS' = ALLOCATIONS
          /\ BoundTo(CORE_MAP', key) \subseteq BoundTo(CORE_MAP, key)
          /\ \A n \in DOMAIN ev'.stolen : CORE_MAP'[ev'.stolen[n].g] = None]_vars

\* C19 witness: after a steal the allocate call answered with an error; the
\* stolen slot is Free, the victim's Allocation still lists it and the
\* request is queued.
C19_Witness ==
  /\ ev.op = "attempt" /\ ~ev.ok /\ ev.alloc = "error"
  /\ ev.stolen # <<>>
  /\ \A n \in DOMAIN ev.stolen :
       /\ CORE_MAP[ev.stolen[n].g] = None
       /\ ev.stolen[n].g \in Allocated(ALLOCATIONS, <<ev.stolen[n].agent, ev.stolen[n].job>>)
  /\ \E i \in DOMAIN PENDING : PENDING[i].vm = ev.vm /\ PENDING[i].job = ev.job
  /\ <<ev.vm, ev.job>> \notin DOMAIN ALLOCATIONS

\* C20: an attempt in which a victim agent's release call answered 404 or
\* 500, or the allocate call answered with an error, does not admit the
\* request, and the request stays in the pending queue.
C20_AgentErrorFailsAttempt ==
  [][(ev'.op = "attempt" /\ (ev'.relerr \/ ev'.alloc = "error")) =>
       /\ ~ev'.ok
       /\ CurrentReq \in Range(PENDING')]_vars

\* C21: while a summary call is making its copies it holds the lock, it
\* entered with no scheduling pass under way, and the copies it has made equal
\* the ledger; the core_map, allocations and pending it returns are those of
\* the ledger at the moment it returns, with no pass holding the lock or
\* partway, and in what it returns every Bound slot belongs to an Allocation
\* that lists it.
C21_SummaryAtomic ==
  /\ summary.pc # "idle" =>
       /\ LOCK = "summary" /\ summary.lock = "free" /\ worklist = <<>>
       /\ summary.core_map_copy = CORE_MAP
       /\ summary.pc = "pending" => summary.alloc_copy = ALLOCATIONS
  /\ ev.op = "summary" =>
       /\ LOCK # "sched" /\ worklist = <<>>
       /\ ev.core_map = CORE_MAP /\ ev.allocations = ALLOCATIONS /\ ev.pending = PENDING
       /\ \A g \in DOMAIN ev.core_map :
            ev.core_map[g] # None =>
              (ev.core_map[g] \in DOMAIN ev.allocations /\ g \in Range(ev.allocations[ev.core_map[g]]))

\* C21 witness: a summary returned between two passes, with a slot that a
\* steal had freed and a request still queued.
C21_Witness ==
  /\ ev.op = "summary"
  /\ ev.pending # <<>>
  /\ \E k \in DOMAIN ev.allocations : \E g \in Range(ev.allocations[k]) : ev.core_map[g] = None

\* C22: a job cycle that has spawned its child eventually ends, and it has
\* then sent complete for its (agent, job) exactly once, on the path of a
\* failed request, of a child that ended before allocation, of the allocation
\* time-out and of the normal end; it never sends complete more than once; on
\* the time-out path the start marker was never created, and on the normal
\* path the start marker is gone once the cycle has ended.
C22_CycleCompletesOnce ==
  /\ [](LET w == worker[CyclePid]
        IN /\ w.sent <= 1
           /\ (w.pc = "done") <=> (w.sent = 1)
           /\ w.pc = "done" => w.path \in {"request_failed", "exited", "timeout", "normal"}
           /\ w.pc \in {"notify", "poll"} \/ w.path \in {"request_failed", "exited", "timeout"}
                => CyclePid \notin start_tokens
           /\ w.path = "normal" => CyclePid \notin start_tokens)
  /\ (worker[CyclePid].pc # "idle") ~> (worker[CyclePid].pc = "done" /\ worker[CyclePid].sent = 1)

\* C22 witness: a cycle has ended on the normal path; its complete was served
\* and freed the job's cores.
C22_Witness ==
  /\ worker[CyclePid].pc = "done" /\ worker[CyclePid].path = "normal"
  /\ ev.op = "complete" /\ ev.ok
  /\ ev.vm = worker[CyclePid].agent /\ ev.job = worker[CyclePid].name
  /\ CyclePid \in affined

\* the requests a scheduling pass has still to attempt
Todo == IF LOCK = "sched" THEN worklist ELSE PENDING

\* the earliest-enqueued request among those still to attempt
Earliest == CHOOSE r \in Range(Todo) : \A q \in Range(Todo) : r.ts <= q.ts

\* the number of Free slots of core map cm in the range of agent vm
FreeIn(cm, vm) ==
  Cardinality({g \in Range(RangeList(AGENTS[vm].offset, AGENTS[vm].total_cores)) : CoreGet(cm, g) = None})

\* C23: the pending queue is in enqueue order, and every scheduling attempt
\* works on the earliest-enqueued request the pass has not attempted yet; it
\* removes no other request from the queue, and what is left to attempt are
\* exactly the later requests, in enqueue order. The pass ends only when
\* nothing is left to attempt, also when the attempt deferred its request.
\* When a later request for the same agent waits in the same pass, each of
\* the two fits the agent's Free slots alone but not both, and the agent call
\* succeeds, the attempt admits the earlier one, and the later one stays
\* queued with fewer Free slots than it needs.
C23_FifoPass ==
  [][/\ \A i, j \in DOMAIN PENDING : i < j => PENDING[i].ts < PENDING[j].ts
     /\ ev'.op = "attempt" =>
          /\ ev'.vm = Earliest.vm /\ ev'.job = Earliest.job
          /\ \A r \in Range(PENDING) \ {Earliest} : r \in Range(PENDING')
          /\ ev'.ok => Earliest \notin Range(PENDING')
          /\ Range(worklist') = Range(Todo) \ {Earliest}
          /\ \A i, j \in DOMAIN worklist' : i < j => worklist'[i].ts < worklist'[j].ts
          /\ (LOCK' = "free") <=> (Range(Todo) = {Earliest})
          /\ \A r2 \in Range(Todo) \ {Earliest} :
               ( /\ r2.vm = Earliest.vm /\ r2.vm \in DOMAIN AGENTS
                 /\ FreeIn(CORE_MAP, r2.vm) >= Earliest.need
                 /\ FreeIn(CORE_MAP, r2.vm) >= r2.need
                 /\ FreeIn(CORE_MAP, r2.vm) < Earliest.need + r2.need
                 /\ ev'.alloc = "ok" )
               => /\ ev'.ok /\ ev'.stolen = <<>>
                  /\ Earliest \notin Range(PENDING')
                  /\ r2 \in Range(PENDING')
                  /\ FreeIn(CORE_MAP', r2.vm) < r2.need]_vars

\* C23 witness: in one pass an earlier request was deferred, the next one was
\* admitted directly on the last Free slot of its agent, and a later request
\* for the same agent, which would have fitted alone, is the next to attempt.
C23_Witness ==
  /\ LOCK = "sched" /\ ev.op = "attempt" /\ ev.ok /\ ev.stolen = <<>>
  /\ \E r0 \in Range(PENDING) \ Range(worklist) : r0.ts < Head(worklist).ts
  /\ Head(worklist).vm = ev.vm
  /\ FreeIn(CORE_MAP, ev.vm) < Head(worklist).need
  /\ Head(worklist).need <= FreeIn(CORE_MAP, ev.vm) + Len(ALLOCATIONS[<<ev.vm, ev.job>>])

\* C24: the Allocations of two different (agent, job) keys have no global
\* core index in common.
C24_AllocationsDisjoint ==
  \A k1, k2 \in DOMAIN ALLOCATIONS :
    k1 # k2 => Range(ALLOCATIONS[k1]) \cap Range(ALLOCATIONS[k2]) = {}

\* C25: every slot a scheduling attempt takes from a victim belongs to a job
\* of the requesting agent and lies in the requesting agent's core range, and
\* when an attempt has freed a victim's slot the requesting agent has at
\* least `need` Free slots in its range, counting the slots the attempt then
\* bound to the requester.
C25_StealServesRequest ==
  [][(ev'.op = "attempt" /\ ev'.stolen # <<>>) =>
       LET req == CurrentReq
           agent_slots == Range(RangeList(AGENTS[req.vm].offset, AGENTS[req.vm].total_cores))
       IN /\ \A i \in DOMAIN ev'.stolen :
               /\ ev'.stolen[i].agent = req.vm
               /\ ev'.stolen[i].g \in agent_slots
          /\ FreeIn(CORE_MAP', req.vm) + (IF ev'.ok THEN req.need ELSE 0) >= req.need]_vars

\* the cores agent a records for job j: jobs[j]["cores"], nothing without a record
AgentCores(a, j) ==
  IF j \in DOMAIN jobs[Endpoint(a)] THEN Range(jobs[Endpoint(a)][j].cores) ELSE {}

\* C26: whenever the controller lock is free, in a run in which every agent
\* call has succeeded, the cores every agent records for every job are exactly
\* the slots Bound to that (agent, job) in the controller's core_map.
C26_AgentAgreesWithCoreMap ==
  LOCK = "free" =>
    \A a \in DOMAIN AGENTS, j \in Jobs : AgentCores(a, j) = BoundTo(CORE_MAP, <<a, j>>)
====
